---- MODULE Spec2Model ----
(***************************************************************************)
(* Model of the towncryer chat server fragment:                            *)
(*   - the proxy topic actor (Topic.runProxy and its helpers),             *)
(*   - the HTTP frontend lifecycle (listenAndServe).                       *)
(*                                                                         *)
(* Spec      : the proxy topic actor with its environment (sessions        *)
(*             coming and going, the idle timer firing, the master         *)
(*             answering).  The events arriving on the actor's channels    *)
(*             are inputs: any event may arrive at any time.               *)
(*             t.perUser is written by the actor and read nowhere in it:   *)
(*             Spec leaves the acs presence messages out and SpecAcs is    *)
(*             Spec with them.                                             *)
(* SpecAcs   : the proxy topic actor including the master's acs presence   *)
(*             messages (Topic.updateAcsFromPresMsg).                      *)
(* SpecHttp  : listenAndServe, its listener goroutine and the hub.         *)
(***************************************************************************)
EXTENDS Integers, Sequences, FiniteSets, TLC

\* ---------------------------------------------------------------- bounds
NumSessions == 2
MaxUid == 2
MaxSeqId == 1
MaxSignals == 2

Sids == 1..NumSessions          \* local sessions (sid); 0 stands for "no session"
Uids == 1..MaxUid               \* non-zero user ids; 0 is the zero uid
SeqIds == 0..MaxSeqId

\* Ctrl.Code values the master answers with (both sides of the 300 boundary).
Codes == {299, 300}

\* Ctrl.Topic of a join response: <<prefix, rest>> of the topic name.
CtrlTopics == {<<"grp", "XYZ">>, <<"chn", "XYZ">>}

VARIABLES
    \* ---- proxy topic actor
    sessions,     \* t.sessions: attached session -> [uid, isChanSub]
    subs,         \* per session: the Subscription stored under t.name, or NoSub
    timer,        \* killTimer: "stopped", "armed" or "expired"
    timerC,       \* TRUE when a tick is waiting in killTimer.C
    lastID,       \* t.lastID
    tpc,          \* the actor's loop: at its "select", an event "handled",
                  \* "exited" or "panic"
    ev,           \* the event processed by the last step, with its inputs
    out,          \* per session: what the last step passed to queueOut
    routed,       \* the routeToTopicMaster calls made by the last step
    perUser,      \* t.perUser: uid -> [modeWant, modeGiven]
    \* ---- listenAndServe
    mpc,          \* position of listenAndServe
    lpc,          \* position of the listener goroutine
    shuttingDown, \* globals.shuttingDown
    srvClosed,    \* server.Shutdown has been called
    httpdone,     \* a value is being offered on the unbuffered httpdone channel
    stopCh,       \* signalHandler's goroutine: "idle" waiting for a signal,
                  \* "offered" sending on stop, "taken" when the send is done
    signchan,     \* number of signals buffered in signchan (capacity 1)
    nsig,         \* number of SIGINT/SIGTERM/SIGHUP delivered to the process
    lerr,         \* the error the listener goroutine ended with
    hubpc,        \* the hub's handling of the shutdown request
    cfg,          \* configuration: TLS, redirect, unix addresses, bind result, gRPC
    steps,        \* teardown steps performed so far, in order
    lresult,      \* how the listener goroutine reported its end
    \* ---- media handlers and request authentication (one call at a time)
    hpc,          \* "idle", or "done" when a call has returned
    hfn,          \* the function called
    hreq,         \* the request
    henv,         \* what the collaborators answer during the call
    hres,         \* the outcome of the call
    \* ---- media garbage collector
    gpc,          \* the goroutine: "select", "deleting" or "done"
    gtick,        \* a tick is waiting in gcTicker
    gstop,        \* the caller's send on stop: "none", "offered" or "taken"
    gcalls,       \* number of DeleteUnused calls made
    gcallsAtStop  \* gcalls when the send on stop completed

topicVars == <<sessions, subs, timer, timerC, lastID, tpc, ev, out, routed,
               perUser>>
httpVars == <<mpc, lpc, shuttingDown, srvClosed, httpdone, stopCh, hubpc, cfg,
              steps, lresult, signchan, nsig, lerr>>
vars == <<sessions, subs, timer, timerC, lastID, tpc, ev, out, routed, perUser,
          mpc, lpc, shuttingDown, srvClosed, httpdone, stopCh, hubpc, cfg,
          steps, lresult, signchan, nsig, lerr,
          hpc, hfn, hreq, henv, hres,
          gpc, gtick, gstop, gcalls, gcallsAtStop>>

mediaVars == <<hpc, hfn, hreq, henv, hres>>
gcVars == <<gpc, gtick, gstop, gcalls, gcallsAtStop>>

\* ------------------------------------------------------- topic: helpers

NoSub == [broadcast |-> "none", done |-> "none", meta |-> "none", supd |-> "none"]

\* A Subscription wired with the done and meta channels swapped.
NewSubscriptionSwapped ==
    [broadcast |-> "clientMsg", done |-> "meta", meta |-> "unreg", supd |-> "supd"]

\* The Subscription installed by a successful join: the topic's own channels.
NewSubscription ==
    [broadcast |-> "clientMsg", done |-> "unreg", meta |-> "meta", supd |-> "supd"]

\* Session.uid: the session's own user, which need not be the subscribed one.
SessUid(s) == ((s - 1) % MaxUid) + 1

\* types.IsChannel(name): the name starts with "chn".
IsChannel(name) == name[1] = "chn"

NoEv == [kind |-> "none", sid |-> 0, init |-> FALSE, asUser |-> 0, ok |-> TRUE,
         code |-> 0, uid |-> 0, topic |-> <<"", "">>, skip |-> 0, seq |-> 0,
         done |-> FALSE, what |-> "", inactive |-> FALSE, known |-> TRUE,
         left |-> FALSE, want |-> "", given |-> "", cnt |-> FALSE, dec |-> 0]

NoOut == [s \in Sids |-> <<>>]

\* t.remSession(sess, asUid): found and subscribed as asUid.
remResult(ss, s, asUid) == s \in DOMAIN ss /\ ss[s].uid = asUid

remSession(ss, s, asUid) ==
    IF remResult(ss, s, asUid) THEN [x \in (DOMAIN ss) \ {s} |-> ss[x]] ELSE ss

\* t.addSession(sess, asUid, isChanSub)
addSession(ss, s, asUid, isChanSub) ==
    [x \in (DOMAIN ss) \cup {s} |->
        IF x = s THEN [uid |-> asUid, isChanSub |-> isChanSub] ELSE ss[x]]

\* What may remain in killTimer.C after Stop() or Reset(): a tick delivered
\* before the call stays in the channel or is discarded, depending on the
\* timer-channel semantics of the Go toolchain the server is built with.
StaleTick(tc) == IF tc THEN {TRUE, FALSE} ELSE {FALSE}

\* ------------------------------------------------------- topic: Init

TopicInit ==
    /\ sessions = << >>
    /\ subs = [s \in Sids |-> NoSub]
    /\ timer = "stopped"
    /\ timerC = FALSE
    /\ lastID = 0
    /\ tpc = "select"
    /\ ev = NoEv
    /\ out = NoOut
    /\ routed = <<>>
    /\ perUser = << >>

\* ------------------------------------------------------- topic: actions

\* A step of the environment, taken while the actor waits in its select
\* (a step taken while a handler runs has the same effect right after it).
EnvStep ==
    /\ tpc = "select"
    /\ UNCHANGED <<tpc, ev, out, routed>>

\* A forward failure is always answered with ErrClusterUnreachable.
routeFailReplyAlways(ok) == <<"ErrClusterUnreachable">>

\* What the originating session is sent after routeToTopicMaster returned.
routeFailReply(ok) == IF ok THEN <<>> ELSE <<"ErrClusterUnreachable">>

\* globals.cluster.routeToTopicMaster(req, msg, t.name, sess): the request
\* type, the session's sid and uid where the handler sets them, and where the
\* user agent of a session update is taken from ("" for a client message).
RouteUA(req, s, uid, ua) == <<[req |-> req, sid |-> s, uid |-> uid, ua |-> ua]>>

Route(req, s, uid) == RouteUA(req, s, uid, "")

\* A join is forwarded whether or not the topic is active.
regRouteAlways(s, inactive) == Route("ProxyReqJoin", s, 0)

\* if t.isInactive() { ErrLocked } else if err := routeToTopicMaster(ProxyReqJoin, ...)
regRoute(s, inactive) == IF inactive THEN <<>> ELSE Route("ProxyReqJoin", s, 0)

\* if init && msg.sess.inflightReqs != nil { msg.sess.inflightReqs.Done() }:
\* the number of Done() calls; cnt is inflightReqs != nil, init the value of
\* msg.init when it is tested (reg tests the counter only).
inflightDone(cnt, init) == IF init /\ cnt THEN 1 ELSE 0

\* case msg := <-t.reg. inactive is what t.isInactive() returns: the topic's
\* status is set by the hub at any time, so each event reads either value.
\* cnt: the session has an inflight counter.
Reg(s, inactive, cnt) ==
    /\ tpc = "select"
    /\ \E ok \in (IF inactive THEN {TRUE} ELSE BOOLEAN) :
        /\ ev' = [NoEv EXCEPT !.kind = "reg", !.sid = s, !.ok = ok,
                              !.inactive = inactive, !.cnt = cnt,
                              !.dec = inflightDone(cnt, TRUE)]
        /\ out' = [NoOut EXCEPT ![s] = IF inactive THEN <<"ErrLocked">>
                                        ELSE routeFailReply(ok)]
        /\ routed' = regRoute(s, inactive)
    /\ UNCHANGED <<sessions, subs, timer, timerC, lastID>>
    /\ tpc' = "handled"
    /\ UNCHANGED <<perUser, httpVars, mediaVars, gcVars>>

\* The subscription is left in place whatever remSession returned.
subAfterLeaveKept(sub, result) == sub

\* if result { msg.sess.delSub(t.name) }
subAfterLeave(sub, result) == IF result THEN NoSub ELSE sub

\* case msg := <-t.unreg, with Topic.handleProxyLeaveRequest.
\* asUser = 0 stands for an AsUser that parses to the zero uid; cnt: the
\* session has an inflight counter. msg is shared with the handler, which
\* sets msg.init unless it returns early for an unknown session.
Unreg(s, init, asUser, cnt) ==
    /\ tpc = "select"
    /\ LET asUid0 == IF init THEN asUser ELSE 0
           unknown == asUid0 = 0 /\ s \notin DOMAIN sessions
           asUid == IF asUid0 = 0 /\ s \in DOMAIN sessions
                    THEN sessions[s].uid ELSE asUid0
           result == ~unknown /\ remResult(sessions, s, asUid)
           after == IF unknown THEN sessions ELSE remSession(sessions, s, asUid)
           initAfter == IF unknown THEN init ELSE TRUE
       IN
       \E ok \in (IF unknown THEN {TRUE} ELSE BOOLEAN) :
        /\ ev' = [NoEv EXCEPT !.kind = "unreg", !.sid = s, !.init = init,
                              !.asUser = asUser, !.ok = ok, !.uid = asUid,
                              !.cnt = cnt, !.dec = inflightDone(cnt, initAfter)]
        /\ sessions' = after
        /\ subs' = [subs EXCEPT ![s] = subAfterLeave(subs[s], result)]
        /\ routed' = IF unknown THEN <<>> ELSE Route("ProxyReqLeave", s, asUid)
        /\ IF ~unknown /\ Cardinality(DOMAIN after) = 0
           THEN /\ timer' = "armed"
                /\ timerC' \in StaleTick(timerC)
           ELSE UNCHANGED <<timer, timerC>>
        /\ out' = [NoOut EXCEPT ![s] =
                     IF result THEN <<>> ELSE <<"ErrClusterUnreachable">>]
    /\ UNCHANGED lastID
    /\ tpc' = "handled"
    /\ UNCHANGED <<perUser, httpVars, mediaVars, gcVars>>

\* case msg := <-t.clientMsg
ClientMsg(s) ==
    /\ tpc = "select"
    /\ \E ok \in BOOLEAN :
        /\ ev' = [NoEv EXCEPT !.kind = "clientMsg", !.sid = s, !.ok = ok]
        /\ out' = [NoOut EXCEPT ![s] = routeFailReply(ok)]
        /\ routed' = Route("ProxyReqBroadcast", s, 0)
    /\ UNCHANGED <<sessions, subs, timer, timerC, lastID>>
    /\ tpc' = "handled"
    /\ UNCHANGED <<perUser, httpVars, mediaVars, gcVars>>

\* case msg := <-t.meta
Meta(s) ==
    /\ tpc = "select"
    /\ \E ok \in BOOLEAN :
        /\ ev' = [NoEv EXCEPT !.kind = "meta", !.sid = s, !.ok = ok]
        /\ out' = [NoOut EXCEPT ![s] = routeFailReply(ok)]
        /\ routed' = Route("ProxyReqMeta", s, 0)
    /\ UNCHANGED <<sessions, subs, timer, timerC, lastID>>
    /\ tpc' = "handled"
    /\ UNCHANGED <<perUser, httpVars, mediaVars, gcVars>>

\* case msg := <-t.serverMsg: routed intra-cluster or logged, no local effect.
ServerMsg ==
    /\ tpc = "select"
    /\ ev' = [NoEv EXCEPT !.kind = "serverMsg"]
    /\ out' = NoOut
    /\ routed' = <<>>
    /\ UNCHANGED <<sessions, subs, timer, timerC, lastID>>
    /\ tpc' = "handled"
    /\ UNCHANGED <<perUser, httpVars, mediaVars, gcVars>>

\* The session's own uid is forwarded.
supdUidOwn(ss, s) == SessUid(s)

\* pssd, ok := t.sessions[upd.sess]; tmpSess.uid = pssd.uid
supdUid(ss, s) == ss[s].uid

\* case upd := <-t.supd; s = 0 stands for upd.sess == nil.
Supd(s) ==
    /\ tpc = "select"
    /\ \E ok \in (IF s # 0 /\ s \notin DOMAIN sessions THEN {TRUE} ELSE BOOLEAN) :
        /\ ev' = [NoEv EXCEPT !.kind = "supd", !.sid = s, !.ok = ok]
        /\ routed' = IF s = 0
                     THEN RouteUA("ProxyReqMeUserAgent", 0, 0, "upd.userAgent")
                     ELSE IF s \in DOMAIN sessions
                          THEN RouteUA("ProxyReqBgSession", s, supdUid(sessions, s),
                                       "upd.sess.userAgent")
                          ELSE <<>>
    /\ out' = NoOut
    /\ UNCHANGED <<sessions, subs, timer, timerC, lastID>>
    /\ tpc' = "handled"
    /\ UNCHANGED <<perUser, httpVars, mediaVars, gcVars>>

\* ------------------------------------------- topic: master responses

\* The idle timer is never stopped by a join response.
joinRespTimerNoStop(known, code, n, tm) ==
    IF known /\ code >= 300 /\ n = 0 THEN "armed" ELSE tm

\* killTimer after a join response carrying a Ctrl: known is sess != nil,
\* n is len(t.sessions) after the response was applied.
joinRespTimer(known, code, n, tm) ==
    IF ~known THEN tm
    ELSE IF code < 300 THEN "stopped"
    ELSE IF n = 0 THEN "armed"
    ELSE tm

\* The latest sequence id seen so far is kept.
lastIDAfterDataMax(cur, seq) == IF seq > cur THEN seq ELSE cur

\* t.lastID = msg.Data.SeqId
lastIDAfterData(cur, seq) == seq

\* Every evicted session is notified.
evictNotifyAll(s, skip) == TRUE

\* if sess.sid != msg.SkipSid { sess.queueOut(msg) }
evictNotify(s, skip) == s # skip

\* case msg := <-t.proxy, OrigSid == "*", payload Data, Pres or Info:
\* Topic.handleProxyBroadcast. what = "data" carries SeqId seq.
ProxyBroadcast(what, seq, inactive) ==
    /\ tpc = "select"
    /\ ev' = [NoEv EXCEPT !.kind = "bcast", !.what = what, !.seq = seq,
                          !.inactive = inactive]
    /\ routed' = <<>>
    /\ IF inactive
       THEN /\ out' = NoOut
            /\ UNCHANGED lastID
       ELSE /\ lastID' = IF what = "data" THEN lastIDAfterData(lastID, seq) ELSE lastID
            /\ out' = [s \in Sids |-> IF s \in DOMAIN sessions THEN <<what>> ELSE <<>>]
    /\ UNCHANGED <<sessions, subs, timer, timerC>>
    /\ tpc' = "handled"
    /\ UNCHANGED <<perUser, httpVars, mediaVars, gcVars>>

\* case msg := <-t.proxy, OrigSid == "*", payload Ctrl: Topic.proxyCtrlBroadcast.
\* uid = 0 is the zero uid: the actor panics on an eviction without a user.
ProxyCtrlBroadcast(code, text, uid, skip) ==
    /\ tpc = "select"
    /\ ev' = [NoEv EXCEPT !.kind = "ctrlBcast", !.code = code,
                          !.what = text, !.uid = uid, !.skip = skip]
    /\ routed' = <<>>
    /\ IF code = 205 /\ text = "evicted"
       THEN IF uid = 0
            THEN /\ tpc' = "panic"
                 /\ out' = NoOut
                 /\ UNCHANGED <<sessions, subs>>
            ELSE LET gone == {s \in DOMAIN sessions : remResult(sessions, s, uid)}
                 IN /\ sessions' = [x \in (DOMAIN sessions) \ gone |-> sessions[x]]
                    /\ subs' = [s \in Sids |-> IF s \in gone THEN NoSub ELSE subs[s]]
                    /\ out' = [s \in Sids |->
                                 IF s \in gone /\ evictNotify(s, skip)
                                 THEN <<"ctrl">> ELSE <<>>]
                    /\ tpc' = "handled"
       ELSE /\ out' = NoOut
            /\ tpc' = "handled"
            /\ UNCHANGED <<sessions, subs>>
    /\ UNCHANGED <<timer, timerC, lastID>>
    /\ UNCHANGED <<perUser, httpVars, mediaVars, gcVars>>

\* case msg := <-t.proxy, OrigReqType ProxyReqJoin, for OrigSid s.
\* known is globals.sessionStore.Get(msg.OrigSid) != nil, hasCtrl is
\* msg.SrvMsg.Ctrl != nil, left is the session having gone from the store by
\* the re-check made under sess.sessionStoreLock. The session store belongs
\* to the session layer: what a lookup returns is an input of the event.
JoinResp(s, known, left, hasCtrl, code, uid, topic) ==
    /\ tpc = "select"
    /\ LET success == known /\ hasCtrl /\ code < 300
           after == IF success /\ ~left
                    THEN addSession(sessions, s, uid, IsChannel(topic))
                    ELSE sessions
       IN
        /\ ev' = [NoEv EXCEPT !.kind = "joinResp", !.sid = s, !.known = known,
                              !.left = left, !.ok = hasCtrl, !.code = code,
                              !.uid = uid, !.topic = topic]
        /\ sessions' = after
        /\ subs' = IF success /\ ~left
                   THEN [subs EXCEPT ![s] = NewSubscription] ELSE subs
        /\ timer' = IF hasCtrl
                    THEN joinRespTimer(known, code, Cardinality(DOMAIN after), timer)
                    ELSE timer
        /\ IF known /\ hasCtrl /\ (code < 300 \/ Cardinality(DOMAIN after) = 0)
           THEN timerC' \in StaleTick(timerC)
           ELSE UNCHANGED timerC
        /\ out' = [NoOut EXCEPT ![s] = IF known THEN <<"resp">> ELSE <<>>]
        /\ routed' = <<>>
    /\ UNCHANGED lastID
    /\ tpc' = "handled"
    /\ UNCHANGED <<perUser, httpVars, mediaVars, gcVars>>

\* A refused leave puts the session back into t.sessions.
leaveRespSessionsReattach(ss, s, known, hasCtrl, code) ==
    IF hasCtrl /\ known
    THEN IF code < 300 THEN remSession(ss, s, SessUid(s))
         ELSE addSession(ss, s, SessUid(s), FALSE)
    ELSE ss

\* t.sessions after a leave response: on Ctrl.Code < 300 and a session still
\* in the store, t.remSession(sess, sess.uid); otherwise untouched.
leaveRespSessions(ss, s, known, hasCtrl, code) ==
    IF hasCtrl /\ code < 300 /\ known
    THEN remSession(ss, s, SessUid(s)) ELSE ss

\* case msg := <-t.proxy, OrigReqType ProxyReqLeave, for OrigSid s.
LeaveResp(s, known, hasCtrl, code) ==
    /\ tpc = "select"
    /\ LET after == leaveRespSessions(sessions, s, known, hasCtrl, code)
           arm == hasCtrl /\ Cardinality(DOMAIN after) = 0
       IN
        /\ ev' = [NoEv EXCEPT !.kind = "leaveResp", !.sid = s, !.known = known,
                              !.ok = hasCtrl, !.code = code]
        /\ sessions' = after
        /\ IF arm
           THEN /\ timer' = "armed"
                /\ timerC' \in StaleTick(timerC)
           ELSE UNCHANGED <<timer, timerC>>
        /\ out' = [NoOut EXCEPT ![s] = IF known THEN <<"resp">> ELSE <<>>]
        /\ routed' = <<>>
    /\ UNCHANGED <<subs, lastID>>
    /\ tpc' = "handled"
    /\ UNCHANGED <<perUser, httpVars, mediaVars, gcVars>>

\* case msg := <-t.proxy, OrigReqType ProxyReqBroadcast, ProxyReqMeta,
\* ProxyReqCall (no processing) or any other type (logged).
OtherResp(s, known, req) ==
    /\ tpc = "select"
    /\ ev' = [NoEv EXCEPT !.kind = "otherResp", !.sid = s, !.known = known,
                          !.what = req]
    /\ out' = [NoOut EXCEPT ![s] = IF known THEN <<"resp">> ELSE <<>>]
    /\ routed' = <<>>
    /\ UNCHANGED <<sessions, subs, timer, timerC, lastID>>
    /\ tpc' = "handled"
    /\ UNCHANGED <<perUser, httpVars, mediaVars, gcVars>>

\* ---------------------------------------------- topic: acs presence

\* Access modes are sets of permissions; one permission is modelled.
Modes == SUBSET {"R"}

\* Mutation strings of Pres.Acs.Want / Pres.Acs.Given: empty, deltas,
\* the absolute mode "N" (none) and a string that does not parse.
Mutations == {"", "+R", "-R", "N", "?"}

\* AccessMode.ApplyMutation(mutation): [err, mode]. An empty mutation
\* changes nothing, "+"/"-" strings are deltas, anything else is parsed as
\* an absolute mode.
ApplyMutation(mode, mutation) ==
    IF mutation = "" THEN [err |-> FALSE, mode |-> mode]
    ELSE IF mutation = "+R" THEN [err |-> FALSE, mode |-> mode \cup {"R"}]
    ELSE IF mutation = "-R" THEN [err |-> FALSE, mode |-> mode \ {"R"}]
    ELSE IF mutation = "N" THEN [err |-> FALSE, mode |-> {}]
    ELSE [err |-> TRUE, mode |-> mode]

\* The zero value of perUserData: what t.perUser[uid] gives for a missing key.
ZeroPud == [modeWant |-> {}, modeGiven |-> {}]

\* The want mutation is stored before the given mutation is parsed.
updateAcsFromPresMsgPartial(pu, src, want, given) ==
    IF src = 0 THEN pu
    ELSE LET pud == IF src \in DOMAIN pu THEN pu[src] ELSE ZeroPud
             w == ApplyMutation(pud.modeWant, want)
             g == ApplyMutation(pud.modeGiven, given)
         IN IF w.err THEN pu
            ELSE [u \in (DOMAIN pu) \cup {src} |->
                    IF u = src THEN [modeWant |-> w.mode, modeGiven |-> g.mode]
                    ELSE pu[u]]

\* Topic.updateAcsFromPresMsg(pres): src is ParseUserId(pres.Src), 0 when
\* it is not a valid user id.
updateAcsFromPresMsg(pu, src, want, given) ==
    IF src = 0 THEN pu
    ELSE LET pud == IF src \in DOMAIN pu THEN pu[src] ELSE ZeroPud
             w == ApplyMutation(pud.modeWant, want)
             g == ApplyMutation(pud.modeGiven, given)
         IN IF w.err THEN pu
            ELSE IF g.err THEN pu
            ELSE [u \in (DOMAIN pu) \cup {src} |->
                    IF u = src THEN [modeWant |-> w.mode, modeGiven |-> g.mode]
                    ELSE pu[u]]

\* case msg := <-t.proxy with SrvMsg.Pres, Pres.What == "acs" and Pres.Acs
\* set: updateAcsFromPresMsg, then the dispatch by OrigSid. target = 0 is
\* OrigSid "*" (handleProxyBroadcast); for a session's sid no request type
\* changes local state when Ctrl is nil and the message is queued to the
\* session if it is in the store.
PresAcs(target, known, inactive, src, want, given) ==
    /\ tpc = "select"
    /\ ev' = [NoEv EXCEPT !.kind = "presAcs", !.sid = target, !.known = known,
                          !.inactive = inactive, !.uid = src, !.want = want,
                          !.given = given]
    /\ perUser' = updateAcsFromPresMsg(perUser, src, want, given)
    /\ out' = IF target = 0
              THEN [s \in Sids |-> IF ~inactive /\ s \in DOMAIN sessions
                                   THEN <<"pres">> ELSE <<>>]
              ELSE [NoOut EXCEPT ![target] = IF known THEN <<"resp">> ELSE <<>>]
    /\ routed' = <<>>
    /\ UNCHANGED <<sessions, subs, timer, timerC, lastID>>
    /\ tpc' = "handled"
    /\ UNCHANGED <<httpVars, mediaVars, gcVars>>

\* case sd := <-t.exit; done is sd.done != nil. routed records the call of
\* topicProxyGone and the send on sd.done.
Exit(done) ==
    /\ tpc = "select"
    /\ ev' = [NoEv EXCEPT !.kind = "exit", !.done = done]
    /\ subs' = [s \in Sids |-> IF s \in DOMAIN sessions THEN NoSub ELSE subs[s]]
    /\ routed' = Route("topicProxyGone", 0, 0)
                  \o (IF done THEN Route("sd.done", 0, 0) ELSE <<>>)
    /\ out' = NoOut
    /\ tpc' = "exited"
    /\ UNCHANGED <<sessions, timer, timerC, lastID>>
    /\ UNCHANGED <<perUser, httpVars, mediaVars, gcVars>>

\* case <-killTimer.C: hub.unreg <- &topicUnreg{rcptTo: t.name}
KillTimer ==
    /\ tpc = "select"
    /\ timerC
    /\ timerC' = FALSE
    /\ ev' = [NoEv EXCEPT !.kind = "killTimer"]
    /\ out' = NoOut
    /\ routed' = <<>>
    /\ UNCHANGED <<sessions, subs, timer, lastID>>
    /\ tpc' = "handled"
    /\ UNCHANGED <<perUser, httpVars, mediaVars, gcVars>>

\* for { select { ... } }: the handler returned and the actor is back at its
\* select; the record of the handled event is dropped.
LoopBack ==
    /\ tpc = "handled"
    /\ tpc' = "select"
    /\ ev' = NoEv
    /\ out' = NoOut
    /\ routed' = <<>>
    /\ UNCHANGED <<sessions, subs, timer, timerC, lastID>>
    /\ UNCHANGED <<perUser, httpVars, mediaVars, gcVars>>

\* ------------------------------------------------ topic: environment

\* The armed timer expires and delivers its tick to killTimer.C.
TimerFire ==
    /\ timer = "armed"
    /\ timer' = "expired"
    /\ timerC' = TRUE
    /\ EnvStep
    /\ UNCHANGED <<sessions, subs, lastID>>
    /\ UNCHANGED <<perUser, httpVars, mediaVars, gcVars>>

\* The events of the topic actor.  Each handler takes every input of its
\* record; the conjuncts in front of a handler leave out combinations of
\* inputs that the handler does not tell apart from one that is kept.
Next ==
    \/ \E s \in Sids, inactive \in BOOLEAN, cnt \in BOOLEAN :
          (cnt \/ ~inactive) /\ Reg(s, inactive, cnt)
    \/ \E s \in Sids, init \in BOOLEAN, asUser \in 0..MaxUid, cnt \in BOOLEAN :
          /\ init \/ asUser = 0
          /\ cnt \/ (init /\ asUser = 0)
          /\ Unreg(s, init, asUser, cnt)
    \/ \E s \in Sids : ClientMsg(s)
    \/ \E s \in Sids : Meta(s)
    \/ ServerMsg
    \/ \E s \in 0..NumSessions : Supd(s)
    \/ \E what \in {"data", "pres", "info"}, seq \in SeqIds, inactive \in BOOLEAN :
          (what = "data" \/ seq = 0) /\ ProxyBroadcast(what, seq, inactive)
    \/ \E code \in {205, 500}, text \in {"evicted", "other"}, uid \in 0..MaxUid,
          skip \in 0..NumSessions :
          /\ (code = 205 /\ text = "evicted" /\ uid # 0) \/ (uid = 0 /\ skip = 0)
          /\ ProxyCtrlBroadcast(code, text, uid, skip)
    \/ \E s \in Sids, known \in BOOLEAN, left \in BOOLEAN, hasCtrl \in BOOLEAN,
          code \in Codes, uid \in Uids, topic \in CtrlTopics :
          /\ (known /\ hasCtrl /\ code < 300 /\ ~left) \/
             (uid = 1 /\ topic = <<"grp", "XYZ">>)
          /\ left => (known /\ hasCtrl /\ code < 300)
          /\ hasCtrl \/ code = 299
          /\ JoinResp(s, known, left, hasCtrl, code, uid, topic)
    \/ \E s \in Sids, known \in BOOLEAN, hasCtrl \in BOOLEAN, code \in Codes :
          (hasCtrl \/ code = 299) /\ LeaveResp(s, known, hasCtrl, code)
    \/ \E s \in Sids, known \in BOOLEAN,
          req \in {"ProxyReqBroadcast", "ProxyReqMeUserAgent"} :
          OtherResp(s, known, req)
    \/ \E done \in BOOLEAN : Exit(done)
    \/ KillTimer
    \/ LoopBack
    \/ TimerFire

\* The master's messages with an acs presence: every uid and pair of
\* mutations as a broadcast to an active topic, and every way of delivery.
NextAcs ==
    \/ Next
    \/ \E src \in 0..MaxUid, want \in Mutations, given \in Mutations :
          /\ src = 0 => (want = "" /\ given = "")
          /\ want = "?" => given = ""
          /\ PresAcs(0, TRUE, FALSE, src, want, given)
    \/ \E target \in 0..NumSessions, known \in BOOLEAN, inactive \in BOOLEAN :
          /\ IF target = 0 THEN known /\ inactive ELSE ~inactive
          /\ PresAcs(target, known, inactive, 1, "+R", "+R")

\* The acs presence events alone, with every uid and pair of mutations.
NextPres ==
    \/ \E src \in 0..MaxUid, want \in Mutations, given \in Mutations :
          PresAcs(0, TRUE, FALSE, src, want, given)
    \/ \E target \in Sids, known \in BOOLEAN :
          PresAcs(target, known, FALSE, 1, "+R", "-R")
    \/ LoopBack

\* ------------------------------------------------------- http: Init

HttpInit ==
    /\ mpc = "select"
    /\ lpc = "start"
    /\ shuttingDown = FALSE
    /\ srvClosed = FALSE
    /\ httpdone = FALSE
    /\ stopCh = "idle"
    /\ hubpc = "idle"
    /\ cfg \in [tls : BOOLEAN, redirect : BOOLEAN, unix : BOOLEAN,
                bindFails : BOOLEAN, grpc : BOOLEAN]
    /\ steps = <<>>
    /\ lresult = "none"
    /\ signchan = 0
    /\ nsig = 0
    /\ lerr = "none"

\* A step of listenAndServe changes nothing outside it.
TopicIdle == UNCHANGED <<topicVars, mediaVars, gcVars>>

\* ---------------------------------------- http: the listener goroutine

\* go func() { ... }: the redirect check and netListener(addr).
\* cfg.redirect is globals.tlsRedirectHTTP != "", cfg.unix is isUnixAddr of
\* either address, cfg.bindFails is netListener returning an error.
ListenerStart ==
    /\ lpc = "start"
    /\ lerr' = IF cfg.tls /\ cfg.redirect /\ cfg.unix THEN "redirect"
               ELSE IF cfg.bindFails THEN "bind"
               ELSE "none"
    /\ lpc' = IF lerr' # "none" THEN "report" ELSE "serving"
    /\ UNCHANGED <<mpc, shuttingDown, srvClosed, httpdone, stopCh, hubpc, cfg,
                   steps, lresult>>
    /\ UNCHANGED <<signchan, nsig>>
    /\ TopicIdle

\* server.Serve / server.ServeTLS returns: with ErrServerClosed once
\* server.Shutdown was called, with an accept error before that.
ServeReturns ==
    /\ lpc = "serving"
    /\ lpc' = "report"
    /\ lerr' = IF srvClosed THEN "closed" ELSE "accept"
    /\ UNCHANGED <<mpc, shuttingDown, srvClosed, httpdone, stopCh, hubpc, cfg,
                   steps, lresult>>
    /\ UNCHANGED <<signchan, nsig>>
    /\ TopicIdle

\* The end of the goroutine is always reported as a failure.
listenerReportFailed(down) == "failed"

\* if err != nil { if globals.shuttingDown { "stopped" } else { "failed" } }
listenerReport(down) == IF down THEN "stopped" ELSE "failed"

\* The report, then the send on httpdone is offered.
ListenerReport ==
    /\ lpc = "report"
    /\ lresult' = listenerReport(shuttingDown)
    /\ lpc' = "send"
    /\ httpdone' = TRUE
    /\ UNCHANGED <<mpc, shuttingDown, srvClosed, stopCh, hubpc, cfg, steps>>
    /\ UNCHANGED <<signchan, nsig, lerr>>
    /\ TopicIdle

\* ------------------------------------------ http: signal handler, hub

\* A SIGINT, SIGTERM or SIGHUP is delivered to the process: signal.Notify
\* passes it to signchan without blocking, dropping it when the buffer of
\* one is full.
OsSignal ==
    /\ nsig < MaxSignals
    /\ nsig' = nsig + 1
    /\ signchan' = 1
    /\ UNCHANGED <<mpc, lpc, shuttingDown, srvClosed, httpdone, stopCh, hubpc,
                   cfg, steps, lresult, lerr>>
    /\ TopicIdle

\* signalHandler's goroutine: sig := <-signchan, then stop <- true is offered.
Signal ==
    /\ stopCh = "idle"
    /\ signchan = 1
    /\ signchan' = 0
    /\ stopCh' = "offered"
    /\ UNCHANGED <<mpc, lpc, shuttingDown, srvClosed, httpdone, hubpc, cfg,
                   steps, lresult>>
    /\ UNCHANGED <<nsig, lerr>>
    /\ TopicIdle

\* The hub shut its topics down and offers the completion signal on hubdone.
HubFinishes ==
    /\ hubpc = "shutting"
    /\ hubpc' = "signal"
    /\ UNCHANGED <<mpc, lpc, shuttingDown, srvClosed, httpdone, stopCh, cfg,
                   steps, lresult>>
    /\ UNCHANGED <<signchan, nsig, lerr>>
    /\ TopicIdle

\* ------------------------------------------------ http: listenAndServe

\* One teardown step of the stop branch that touches no shared state.
MainStep(from, to, name) ==
    /\ mpc = from
    /\ mpc' = to
    /\ steps' = Append(steps, name)

\* The goroutine goes back to waiting for the next signal.
stopAfterSendLoops == "idle"

\* signalHandler's goroutine after stop <- true: the function literal ends.
stopAfterSend == "taken"

\* case <-stop: globals.shuttingDown = true
StopEvent ==
    /\ mpc = "select"
    /\ stopCh = "offered"
    /\ stopCh' = stopAfterSend
    /\ shuttingDown' = TRUE
    /\ MainStep("select", "serverShutdown", "shuttingDown")
    /\ UNCHANGED <<lpc, srvClosed, httpdone, hubpc, cfg, lresult>>
    /\ UNCHANGED <<signchan, nsig, lerr>>
    /\ TopicIdle

\* server.Shutdown(ctx) with the 2-second context
ServerShutdown ==
    /\ MainStep("serverShutdown", "sessionStore", "serverShutdown")
    /\ srvClosed' = TRUE
    /\ UNCHANGED <<lpc, shuttingDown, httpdone, stopCh, hubpc, cfg, lresult>>
    /\ UNCHANGED <<signchan, nsig, lerr>>
    /\ TopicIdle

\* globals.sessionStore.Shutdown()
SessionStoreShutdown ==
    /\ MainStep("sessionStore", "waitHttp", "sessionStoreShutdown")
    /\ UNCHANGED <<lpc, shuttingDown, srvClosed, httpdone, stopCh, hubpc, cfg, lresult>>
    /\ UNCHANGED <<signchan, nsig, lerr>>
    /\ TopicIdle

\* The teardown goes on without receiving from httpdone.
WaitHttpDoneSkipped ==
    /\ MainStep("waitHttp", "cluster", "httpdone")
    /\ UNCHANGED <<lpc, shuttingDown, srvClosed, httpdone, stopCh, hubpc, cfg, lresult>>
    /\ UNCHANGED <<signchan, nsig, lerr>>
    /\ TopicIdle

\* <-httpdone in the stop branch: completes the listener goroutine's send.
WaitHttpDone ==
    /\ httpdone
    /\ MainStep("waitHttp", "cluster", "httpdone")
    /\ httpdone' = FALSE
    /\ lpc' = "done"
    /\ UNCHANGED <<shuttingDown, srvClosed, stopCh, hubpc, cfg, lresult>>
    /\ UNCHANGED <<signchan, nsig, lerr>>
    /\ TopicIdle

\* globals.cluster.shutdown()
ClusterShutdown ==
    /\ MainStep("cluster", "plugins", "clusterShutdown")
    /\ UNCHANGED <<lpc, shuttingDown, srvClosed, httpdone, stopCh, hubpc, cfg, lresult>>
    /\ UNCHANGED <<signchan, nsig, lerr>>
    /\ TopicIdle

\* pluginsShutdown(), then the check of globals.grpcServer
PluginsShutdown ==
    /\ MainStep("plugins", IF cfg.grpc THEN "grpc" ELSE "stats", "pluginsShutdown")
    /\ UNCHANGED <<lpc, shuttingDown, srvClosed, httpdone, stopCh, hubpc, cfg, lresult>>
    /\ UNCHANGED <<signchan, nsig, lerr>>
    /\ TopicIdle

\* globals.grpcServer.Stop()
GrpcStop ==
    /\ MainStep("grpc", "stats", "grpcStop")
    /\ UNCHANGED <<lpc, shuttingDown, srvClosed, httpdone, stopCh, hubpc, cfg, lresult>>
    /\ UNCHANGED <<signchan, nsig, lerr>>
    /\ TopicIdle

\* statsShutdown()
StatsShutdown ==
    /\ MainStep("stats", "hubSend", "statsShutdown")
    /\ UNCHANGED <<lpc, shuttingDown, srvClosed, httpdone, stopCh, hubpc, cfg, lresult>>
    /\ UNCHANGED <<signchan, nsig, lerr>>
    /\ TopicIdle

\* globals.hub.shutdown <- hubdone: received by the hub's loop
HubShutdownSend ==
    /\ hubpc = "idle"
    /\ MainStep("hubSend", "hubWait", "hubShutdown")
    /\ hubpc' = "shutting"
    /\ UNCHANGED <<lpc, shuttingDown, srvClosed, httpdone, stopCh, cfg, lresult>>
    /\ UNCHANGED <<signchan, nsig, lerr>>
    /\ TopicIdle

\* <-hubdone
HubDoneRecv ==
    /\ hubpc = "signal"
    /\ MainStep("hubWait", "users", "hubdone")
    /\ hubpc' = "done"
    /\ UNCHANGED <<lpc, shuttingDown, srvClosed, httpdone, stopCh, cfg, lresult>>
    /\ UNCHANGED <<signchan, nsig, lerr>>
    /\ TopicIdle

\* usersShutdown(); break Loop; return nil
UsersShutdown ==
    /\ MainStep("users", "returned", "usersShutdown")
    /\ UNCHANGED <<lpc, shuttingDown, srvClosed, httpdone, stopCh, hubpc, cfg, lresult>>
    /\ UNCHANGED <<signchan, nsig, lerr>>
    /\ TopicIdle

\* The break leaves the select only and the loop goes on.
afterHttpDoneLoops == "select"

\* case <-httpdone: break Loop, then return nil
afterHttpDone == "returned"

\* case <-httpdone: break Loop; return nil
HttpDoneEvent ==
    /\ mpc = "select"
    /\ httpdone
    /\ mpc' = afterHttpDone
    /\ httpdone' = FALSE
    /\ lpc' = "done"
    /\ UNCHANGED <<shuttingDown, srvClosed, stopCh, hubpc, cfg, steps, lresult>>
    /\ UNCHANGED <<signchan, nsig, lerr>>
    /\ TopicIdle

NextHttp ==
    \/ OsSignal
    \/ ListenerStart
    \/ ServeReturns
    \/ ListenerReport
    \/ Signal
    \/ HubFinishes
    \/ StopEvent
    \/ ServerShutdown
    \/ SessionStoreShutdown
    \/ WaitHttpDone
    \/ ClusterShutdown
    \/ PluginsShutdown
    \/ GrpcStop
    \/ StatsShutdown
    \/ HubShutdownSend
    \/ HubDoneRecv
    \/ UsersShutdown
    \/ HttpDoneEvent

\* The steps of listenAndServe's own goroutine.
MainNext ==
    \/ StopEvent
    \/ ServerShutdown
    \/ SessionStoreShutdown
    \/ WaitHttpDone
    \/ ClusterShutdown
    \/ PluginsShutdown
    \/ GrpcStop
    \/ StatsShutdown
    \/ HubShutdownSend
    \/ HubDoneRecv
    \/ UsersShutdown
    \/ HttpDoneEvent

\* The steps the listener goroutine takes on its own; Serve is bound to
\* return only once server.Shutdown has been called.
ListenerNext ==
    \/ ListenerStart
    \/ srvClosed /\ ServeReturns
    \/ ListenerReport

\* Scheduling: a goroutine that can take a step takes one, and the hub
\* answers the shutdown request.
FairHttp ==
    /\ WF_vars(MainNext)
    /\ WF_vars(ListenerNext)
    /\ WF_vars(HubFinishes)

\* The topic actor is not part of SpecHttp, nor listenAndServe of Spec.
HttpQuiet ==
    /\ mpc = "select"
    /\ lpc = "start"
    /\ shuttingDown = FALSE
    /\ srvClosed = FALSE
    /\ httpdone = FALSE
    /\ stopCh = "idle"
    /\ hubpc = "idle"
    /\ cfg = [tls |-> FALSE, redirect |-> FALSE, unix |-> FALSE,
              bindFails |-> FALSE, grpc |-> FALSE]
    /\ steps = <<>>
    /\ lresult = "none"
    /\ signchan = 0
    /\ nsig = 0
    /\ lerr = "none"

\* ================================================================ media
\* Request authentication (getHttpAuth, authHttpRequest) and the two media
\* handlers (largeFileServe, largeFileReceive) are functions of the request
\* and of what their collaborators answer.  SpecMedia calls them one at a
\* time: a call moves hpc from "idle" to "done" and records the request, the
\* collaborators' answers and the outcome; MediaReset takes the next call.

\* A secret is a sequence of four-character base64 groups.  "QUJD" is in the
\* standard alphabet, "QS-_" is in the URL-safe alphabet only, "Q!!!" is in
\* neither.
MaxSecretLen == 1
SecretGroups == {"QUJD", "QS-_", "Q!!!"}
StdGroups == {"QUJD", "QS+/"}
Secrets == UNION {[1..n -> SecretGroups] : n \in 0..MaxSecretLen}

\* strings.NewReplacer("-", "+", "_", "/").Replace(secret)
urlToStd(secret) ==
    [i \in DOMAIN secret |-> IF secret[i] = "QS-_" THEN "QS+/" ELSE secret[i]]

\* base64.StdEncoding.Decode succeeds
stdDecodes(secret) == \A i \in DOMAIN secret : secret[i] \in StdGroups

\* "basic" has a registered handler, "bogus" has none.
AuthMethods == {"", "basic", "bogus"}
GetLogicalAuthHandler(method) == method = "basic"

\* A header is what strings.Split(value, " ") gives: nparts parts, of which
\* the first two are method and secret.  An absent header has one empty part.
NoHeader == [nparts |-> 1, method |-> "", secret |-> <<>>]
HeaderVals ==
    {NoHeader, [nparts |-> 3, method |-> "basic", secret |-> <<"QUJD">>]}
        \cup [nparts : {2}, method : AuthMethods, secret : Secrets]

\* A pair of query or form values "auth" and "secret"; absent values are "".
NoPair == [method |-> "", secret |-> <<>>]
PairVals == [method : AuthMethods, secret : Secrets]

\* The cookies "auth" and "secret".
NoCookie == [hasAuth |-> FALSE, hasSecret |-> FALSE, method |-> "", secret |-> <<>>]
CookieVals ==
    {NoCookie, [NoCookie EXCEPT !.hasAuth = TRUE, !.method = "basic"]}
        \cup [hasAuth : {TRUE}, hasSecret : {TRUE}, method : AuthMethods, secret : Secrets]

HttpMethods == {"OPTIONS", "GET", "HEAD", "POST", "PUT", "DELETE"}
ApiKeys == {"", "valid", "invalid"}
FormTopics == {"", "newacc"}

NoReq ==
    [method |-> "GET", apikey |-> "", topic |-> "",
     xauth |-> NoHeader, authz |-> NoHeader, query |-> NoPair,
     form |-> NoPair, cookie |-> NoCookie]

\* What the collaborators answer during one call: the authenticator, the
\* session store for form value sid (-1: no such session), the blob backend's
\* Headers, the multipart reader and the file, the backend's Upload, the
\* store's FinishUpload and the backend's Download.
NoSession == -1
AuthKinds == {"err", "challenge", "rec"}
OkEnv ==
    [authn |-> [kind |-> "rec", uid |-> 1], sess |-> NoSession,
     hdrErr |-> FALSE, hdrStatus |-> 0, formFile |-> "ok", readOk |-> TRUE,
     seekOk |-> TRUE, uploadOk |-> TRUE, finishOk |-> TRUE, dlOk |-> TRUE]

NoRes ==
    [resp |-> "", code |-> 0, err |-> "", calls |-> <<>>, url |-> FALSE,
     uid |-> 0, challenge |-> FALSE, consulted |-> FALSE]

getHttpAuth(r) ==
    IF r.xauth.nparts = 2 THEN [method |-> r.xauth.method, secret |-> r.xauth.secret]
    ELSE IF r.authz.nparts = 2 THEN [method |-> r.authz.method, secret |-> r.authz.secret]
    ELSE IF r.query.method # "" THEN [method |-> r.query.method, secret |-> urlToStd(r.query.secret)]
    ELSE IF r.form.method # "" THEN [method |-> r.form.method, secret |-> r.form.secret]
    ELSE IF r.cookie.hasAuth /\ r.cookie.hasSecret
         THEN [method |-> r.cookie.method, secret |-> r.cookie.secret]
    ELSE [method |-> "", secret |-> <<>>]

sessionUidUnchecked(e) == e.sess

\* sess := globals.sessionStore.Get(sid); if sess != nil { uid = sess.uid }
sessionUid(e) == IF e.sess # NoSession THEN e.sess ELSE 0

\* The result names uid, challenge and err; consulted records that the
\* session store was asked for the session of form value sid.
authHttpRequest(r, e) ==
    LET a == getHttpAuth(r) IN
    IF a.method # ""
    THEN IF ~stdDecodes(a.secret)
         THEN [NoRes EXCEPT !.err = "ErrMalformed"]
         ELSE IF GetLogicalAuthHandler(a.method)
              THEN IF e.authn.kind = "err" THEN [NoRes EXCEPT !.err = "authn"]
                   ELSE IF e.authn.kind = "challenge" THEN [NoRes EXCEPT !.challenge = TRUE]
                   ELSE [NoRes EXCEPT !.uid = e.authn.uid]
              ELSE NoRes
    ELSE [NoRes EXCEPT !.consulted = TRUE,
                       !.uid = sessionUid(e)]

checkAPIKey(key) == key = "valid"

\* An envelope written through writeHttpResponse.
Envelope(name, err, calls) == [NoRes EXCEPT !.resp = name, !.err = err, !.calls = calls]
\* wrt.WriteHeader(code) with no body.
Status(code, calls) == [NoRes EXCEPT !.resp = "status", !.code = code, !.calls = calls]
\* wrt.WriteHeader(code) followed by a ctrl envelope carrying the code.
StatusCtrl(code, calls) == [NoRes EXCEPT !.resp = "statusCtrl", !.code = code, !.calls = calls]

StatusNoContent == 204
StatusOK == 200

\* The OPTIONS preflight of both handlers.
preflight(e) ==
    IF e.hdrErr THEN Envelope("decoded", "headers", <<"Headers">>)
    ELSE Status(IF e.hdrStatus <= 0 THEN StatusNoContent ELSE e.hdrStatus, <<"Headers">>)

serveMethodAllowedAny(m) == TRUE

\* req.Method != http.MethodGet && req.Method != http.MethodHead
serveMethodAllowed(m) == m \in {"GET", "HEAD"}

largeFileServe(r, e) ==
    LET a == authHttpRequest(r, e) IN
    IF r.method = "OPTIONS" THEN preflight(e)
    ELSE IF ~serveMethodAllowed(r.method) THEN Envelope("ErrOperationNotAllowed", "", <<>>)
    ELSE IF ~checkAPIKey(r.apikey) THEN Envelope("ErrAPIKeyRequired", "", <<>>)
    ELSE IF a.err # "" THEN Envelope("decoded", a.err, <<>>)
    ELSE IF a.challenge THEN Envelope("InfoChallenge", "", <<>>)
    ELSE IF a.uid = 0 THEN Envelope("ErrAuthRequired", "", <<>>)
    ELSE IF e.hdrErr THEN Envelope("decoded", "headers", <<"Headers">>)
    ELSE IF e.hdrStatus # 0
         THEN IF r.method = "GET" THEN StatusCtrl(e.hdrStatus, <<"Headers">>)
              ELSE Status(e.hdrStatus, <<"Headers">>)
    ELSE IF r.method = "HEAD" THEN Status(StatusOK, <<"Headers">>)
    ELSE IF ~e.dlOk THEN Envelope("decoded", "download", <<"Headers", "Download">>)
    ELSE [NoRes EXCEPT !.resp = "content", !.calls = <<"Headers", "Download">>, !.uid = a.uid]

finishUploadedNoCleanup(e, calls) ==
    IF ~e.finishOk
    THEN Envelope("decoded", "finish", calls \o <<"FinishUpload(true,size)">>)
    ELSE [NoRes EXCEPT !.resp = "NoErrParams", !.url = TRUE,
                       !.calls = calls \o <<"FinishUpload(true,size)">>]

\* What follows a successful Upload: FinishUpload(fdef, true, size).
finishUploaded(e, calls) ==
    IF ~e.finishOk
    THEN Envelope("decoded", "finish", calls \o <<"FinishUpload(true,size)", "Delete">>)
    ELSE [NoRes EXCEPT !.resp = "NoErrParams", !.url = TRUE,
                       !.calls = calls \o <<"FinishUpload(true,size)">>]

uploadAdmittedAny(uid, topic) == TRUE

\* The zero uid is let through for the form value topic "newacc".
uploadAdmitted(uid, topic) == ~(uid = 0 /\ topic # "newacc")

largeFileReceive(r, e) ==
    LET a == authHttpRequest(r, e) IN
    IF r.method = "OPTIONS" THEN preflight(e)
    ELSE IF r.method \notin {"POST", "PUT", "HEAD"} THEN Envelope("ErrOperationNotAllowed", "", <<>>)
    ELSE IF ~checkAPIKey(r.apikey) THEN Envelope("ErrAPIKeyRequired", "", <<>>)
    ELSE IF a.err # "" THEN Envelope("decoded", a.err, <<>>)
    ELSE IF a.challenge THEN Envelope("InfoChallenge", "", <<>>)
    ELSE IF ~uploadAdmitted(a.uid, r.topic) THEN Envelope("ErrAuthRequired", "", <<>>)
    ELSE IF e.hdrErr THEN Envelope("decoded", "headers", <<"Headers">>)
    ELSE IF e.hdrStatus # 0
         THEN IF r.method \in {"POST", "PUT"} THEN StatusCtrl(e.hdrStatus, <<"Headers">>)
              ELSE Status(e.hdrStatus, <<"Headers">>)
    ELSE IF r.method \in {"HEAD", "OPTIONS"} THEN Status(StatusOK, <<"Headers">>)
    ELSE IF e.formFile = "toolarge" THEN Envelope("ErrTooLarge", "", <<"Headers">>)
    ELSE IF e.formFile # "ok" THEN Envelope("ErrMalformed", "", <<"Headers">>)
    ELSE IF ~e.readOk THEN Envelope("ErrUnknown", "read", <<"Headers">>)
    ELSE IF ~e.seekOk THEN Envelope("ErrUnknown", "seek", <<"Headers", "FileDef">>)
    ELSE IF ~e.uploadOk
         THEN Envelope("decoded", "upload",
                       <<"Headers", "FileDef", "Upload", "FinishUpload(false,0)">>)
    ELSE [finishUploaded(e, <<"Headers", "FileDef", "Upload">>) EXCEPT !.uid = a.uid]

MediaQuiet ==
    /\ hpc = "idle"
    /\ hfn = ""
    /\ hreq = NoReq
    /\ henv = OkEnv
    /\ hres = NoRes

Returned(fn, r, e, res) ==
    /\ hpc = "idle"
    /\ hpc' = "done"
    /\ hfn' = fn
    /\ hreq' = r
    /\ henv' = e
    /\ hres' = res
    /\ UNCHANGED <<topicVars, httpVars, gcVars>>

AuthHttpRequest(r, e) == Returned("authHttpRequest", r, e, authHttpRequest(r, e))

LargeFileServe(r, e) == Returned("largeFileServe", r, e, largeFileServe(r, e))

LargeFileReceive(r, e) == Returned("largeFileReceive", r, e, largeFileReceive(r, e))

MediaReset ==
    /\ hpc = "done"
    /\ hpc' = "idle"
    /\ hfn' = ""
    /\ hreq' = NoReq
    /\ henv' = OkEnv
    /\ hres' = NoRes
    /\ UNCHANGED <<topicVars, httpVars, gcVars>>

\* A request that differs from NoReq in the credentials only: sources k1 and
\* k2 hold v1 and v2, the other credential sources are absent.
Sources == {"xauth", "authz", "query", "form", "cookie"}
SourceVals(k) ==
    CASE k \in {"xauth", "authz"} -> HeaderVals
      [] k \in {"query", "form"} -> PairVals
      [] OTHER -> CookieVals
AuthRequest(k1, v1, k2, v2) == [NoReq EXCEPT ![k1] = v1, ![k2] = v2]

\* Requests to the handlers carry their credentials in X-Tinode-Auth.
HandlerRequests ==
    {r \in [method : HttpMethods, apikey : ApiKeys, topic : FormTopics,
            xauth : {NoHeader} \cup [nparts : {2}, method : {"basic", "bogus"},
                                     secret : {<<"QUJD">>, <<"Q!!!">>}],
            authz : {NoHeader}, query : {NoPair}, form : {NoPair},
            cookie : {NoCookie}] : TRUE}

\* The authenticator's and the session store's answers.
AuthEnvs ==
    {[OkEnv EXCEPT !.authn = [kind |-> k, uid |-> u], !.sess = s] :
        k \in AuthKinds, u \in 0..MaxUid, s \in {NoSession} \cup 0..MaxUid}

\* The answers of the other collaborators: all succeed, or one of them fails
\* (or Upload and the FinishUpload that follows it both do).
BackendEnvs(e) ==
    {e, [e EXCEPT !.hdrErr = TRUE], [e EXCEPT !.hdrStatus = 307],
     [e EXCEPT !.formFile = "toolarge"], [e EXCEPT !.formFile = "bad"],
     [e EXCEPT !.readOk = FALSE], [e EXCEPT !.seekOk = FALSE],
     [e EXCEPT !.uploadOk = FALSE], [e EXCEPT !.finishOk = FALSE],
     [e EXCEPT !.uploadOk = FALSE, !.finishOk = FALSE],
     [e EXCEPT !.dlOk = FALSE]}

\* An answer that no call asks for is left at its value in OkEnv: the
\* authenticator's unless a known method with a decodable secret was
\* extracted, the session store's unless no method was extracted.
AuthEnvsFor(r) ==
    LET a == getHttpAuth(r) IN
    {e \in AuthEnvs :
        /\ (e.authn # OkEnv.authn =>
                a.method # "" /\ stdDecodes(a.secret) /\ GetLogicalAuthHandler(a.method))
        /\ (e.authn.kind # "rec" => e.authn.uid = 1)
        /\ (e.sess # OkEnv.sess => a.method = "")}

NextMedia ==
    \/ /\ hpc = "idle"
       /\ \E k1 \in Sources, k2 \in Sources :
            \E v1 \in SourceVals(k1), v2 \in SourceVals(k2) :
                \E e \in AuthEnvsFor(AuthRequest(k1, v1, k2, v2)) :
                    AuthHttpRequest(AuthRequest(k1, v1, k2, v2), e)
    \/ /\ hpc = "idle"
       /\ \E r \in HandlerRequests : \E e0 \in AuthEnvsFor(r) : \E e \in BackendEnvs(e0) :
                LargeFileServe(r, e)
    \/ /\ hpc = "idle"
       /\ \E r \in HandlerRequests : \E e0 \in AuthEnvsFor(r) : \E e \in BackendEnvs(e0) :
                LargeFileReceive(r, e)
    \/ MediaReset

\* ================================================================ media gc
\* The goroutine of largeFileRunGarbageCollection and the caller that stops
\* it.  gcTicker holds at most one tick; stop is unbuffered, so the caller's
\* send completes in the step in which the goroutine receives it.
MaxGcRuns == 10

GcInit ==
    /\ gpc = "select"
    /\ gtick = FALSE
    /\ gstop = "none"
    /\ gcalls = 0
    /\ gcallsAtStop = 0

\* The ticker fires; a tick that finds the channel full is dropped.
GcTick ==
    /\ gtick' = TRUE
    /\ gtick = FALSE
    /\ UNCHANGED <<gpc, gstop, gcalls, gcallsAtStop, topicVars, httpVars, mediaVars>>

\* case <-gcTicker: DeleteUnused is called.
GcRun ==
    /\ gpc = "select"
    /\ gtick
    /\ gcalls < MaxGcRuns
    /\ gtick' = FALSE
    /\ gpc' = "deleting"
    /\ gcalls' = gcalls + 1
    /\ UNCHANGED <<gstop, gcallsAtStop, topicVars, httpVars, mediaVars>>

\* DeleteUnused returns; its error is logged and the loop selects again.
GcRunDone ==
    /\ gpc = "deleting"
    /\ gpc' = "select"
    /\ UNCHANGED <<gtick, gstop, gcalls, gcallsAtStop, topicVars, httpVars, mediaVars>>

\* The caller starts its send on stop and blocks.
GcStopSend ==
    /\ gstop = "none"
    /\ gstop' = "offered"
    /\ UNCHANGED <<gpc, gtick, gcalls, gcallsAtStop, topicVars, httpVars, mediaVars>>

gcAfterStopLoops == "select"

\* case <-stop: return
gcAfterStop == "done"

GcStopRecv ==
    /\ gpc = "select"
    /\ gstop = "offered"
    /\ gstop' = "taken"
    /\ gpc' = gcAfterStop
    /\ gcallsAtStop' = gcalls
    /\ UNCHANGED <<gtick, gcalls, topicVars, httpVars, mediaVars>>

NextGc ==
    \/ GcTick
    \/ GcRun
    \/ GcRunDone
    \/ GcStopSend
    \/ GcStopRecv

Init == TopicInit /\ HttpQuiet /\ MediaQuiet /\ GcInit

Spec == Init /\ [][Next]_vars

InitHttp == TopicInit /\ HttpInit /\ MediaQuiet /\ GcInit

SpecHttp == InitHttp /\ [][NextHttp]_vars

SpecHttpLive == InitHttp /\ [][NextHttp]_vars /\ FairHttp

SpecAcs == Init /\ [][NextAcs]_vars

\* The topic actor with its scheduling: a handler that has returned is
\* followed by the next select; an armed timer expires; and a select that
\* finds a tick in killTimer.C again and again takes it at some point, Go's
\* select choosing at random among the cases that are ready.
FairTopic ==
    /\ WF_vars(LoopBack)
    /\ SF_vars(TimerFire)
    /\ SF_vars(KillTimer)

SpecLive == Init /\ [][Next]_vars /\ FairTopic

SpecPres == Init /\ [][NextPres]_vars

SpecMedia == Init /\ [][NextMedia]_vars

SpecGc == Init /\ [][NextGc]_vars

\* ================================================================ claims

Attached == DOMAIN sessions

\* The four channels of a subscription are the topic's.
WiredToTopic(sub) ==
    /\ sub.broadcast = "clientMsg"
    /\ sub.done = "unreg"
    /\ sub.meta = "meta"
    /\ sub.supd = "supd"

C2_AttachedHaveSub ==
    tpc # "exited" => \A s \in Attached : WiredToTopic(subs[s])

\* C2 witness: two sessions are attached after a join response.
C2_Witness ==
    /\ ev.kind = "joinResp"
    /\ Cardinality(Attached) = 2
    /\ \A s \in Attached : WiredToTopic(subs[s])

\* C3 as stated (its second half): whenever T.sessions becomes empty by an
\* unreg, a leave response or an eviction broadcast, the idle timer is armed
\* after that event.
C3_ArmedWhenEmptied ==
    [][(/\ ev'.kind \in {"unreg", "leaveResp", "ctrlBcast"}
        /\ Attached # {}
        /\ DOMAIN sessions' = {})
       => timer' = "armed"]_vars

\* C5 as stated: after exit no session still holds a subscription for the
\* topic, the master was told topicProxyGone and sd.done was signalled if
\* present. (A subscription is installed only by a join response and deleted
\* by every unreg that detaches the session, so the sessions holding one are
\* the sessions attached earlier that have not left via unreg.)
C5_ExitDetachesAll ==
    ev.kind = "exit" =>
        /\ \A s \in Sids : subs[s] = NoSub
        /\ routed[1].req = "topicProxyGone"
        /\ ev.done => (Len(routed) = 2 /\ routed[2].req = "sd.done")

\* C6 as stated: T.lastID never decreases.
C6_LastIDMonotone ==
    [][lastID' >= lastID]_vars

\* C6 amended: a Data broadcast processed while the topic is active sets
\* T.lastID to the broadcast's SeqId, and nothing else changes T.lastID; so
\* T.lastID does not decrease as long as the SeqIds of successive Data
\* broadcasts do not decrease, and a lower SeqId lowers it.
C6_LastIDFollowsSeqId ==
    [][IF ev'.kind = "bcast" /\ ev'.what = "data" /\ ~ev'.inactive
       THEN lastID' = ev'.seq
       ELSE lastID' = lastID]_vars

\* C6 witness: an active Data broadcast with the highest SeqId was processed.
C6_Witness ==
    /\ ev.kind = "bcast"
    /\ ev.what = "data"
    /\ ~ev.inactive
    /\ ev.seq = MaxSeqId
    /\ lastID = MaxSeqId

\* C7: a join response with Ctrl.Code < 300 for a session S: if S is still in
\* the session store at the re-check, S is afterwards in T.sessions with the
\* master's uid and isChanSub = IsChannel(Ctrl.Topic), the subscription is
\* installed, the timer is stopped and the response is queued to S; if S left
\* the store before the re-check, neither T.sessions nor S.subs changes.
C7_JoinSuccess ==
    [][(ev'.kind = "joinResp" /\ ev'.ok /\ ev'.code < 300 /\ ev'.known) =>
        LET s == ev'.sid
        IN IF ~ev'.left
           THEN /\ s \in DOMAIN sessions'
                /\ sessions'[s] = [uid |-> ev'.uid,
                                   isChanSub |-> (ev'.topic[1] = "chn")]
                /\ WiredToTopic(subs'[s])
                /\ timer' = "stopped"
                /\ out'[s] = <<"resp">>
           ELSE /\ sessions' = sessions
                /\ subs' = subs
      ]_vars

\* C7 witness: a channel join was confirmed while the timer had been armed.
C7_Witness ==
    /\ ev.kind = "joinResp"
    /\ ev.ok
    /\ ev.code < 300
    /\ ev.known
    /\ ~ev.left
    /\ ev.sid \in Attached
    /\ sessions[ev.sid].isChanSub
    /\ timer = "stopped"

\* C8 as stated: a join response with Ctrl.Code >= 300 processed while
\* T.sessions is empty leaves it empty and arms the idle timer, whether or
\* not the session is still in the session store; a session still in the
\* store is sent the refusal.
C8_RefusedJoinArms ==
    [][(ev'.kind = "joinResp" /\ ev'.ok /\ ev'.code >= 300 /\ Attached = {}) =>
        /\ DOMAIN sessions' = {}
        /\ timer' = "armed"
        /\ ev'.known => out'[ev'.sid] = <<"resp">>
      ]_vars

\* C9: on an eviction broadcast for a non-zero uid U with SkipSid K, every
\* session subscribed as U is removed from T.sessions and loses its
\* subscription; of these, each one other than K is sent the ctrl and K is
\* sent nothing; every other session keeps its place in T.sessions and its
\* subscription and is sent nothing.
C9_Eviction ==
    [][(ev'.kind = "ctrlBcast" /\ ev'.code = 205 /\ ev'.what = "evicted"
        /\ ev'.uid # 0) =>
        \A s \in Sids :
            IF s \in Attached /\ sessions[s].uid = ev'.uid
            THEN /\ s \notin DOMAIN sessions'
                 /\ subs'[s] = NoSub
                 /\ out'[s] = IF s = ev'.skip THEN <<>> ELSE <<"ctrl">>
            ELSE /\ s \in Attached => (s \in DOMAIN sessions' /\ sessions'[s] = sessions[s])
                 /\ subs'[s] = subs[s]
                 /\ out'[s] = <<>>
      ]_vars

\* C9 witness: an eviction that skipped session 1 notified another session
\* and left nobody attached.
C9_Witness ==
    /\ ev.kind = "ctrlBcast"
    /\ ev.code = 205
    /\ ev.what = "evicted"
    /\ ev.skip = 1
    /\ out[1] = <<>>
    /\ \E s \in Sids : out[s] = <<"ctrl">> /\ s \notin Attached /\ subs[s] = NoSub

\* C10: a reg, clientMsg or meta event on an active topic leaves T.sessions
\* unchanged; the originating session is sent exactly one
\* ErrClusterUnreachable if routeToTopicMaster failed and nothing if it
\* succeeded, and no other session is sent anything.
C10_ForwardFailure ==
    [][(ev'.kind \in {"reg", "clientMsg", "meta"} /\ ~ev'.inactive) =>
        /\ sessions' = sessions
        /\ Len(routed') = 1
        /\ \A s \in Sids :
            out'[s] = IF s = ev'.sid /\ ~ev'.ok
                      THEN <<"ErrClusterUnreachable">> ELSE <<>>
      ]_vars

\* C10 witness: the broadcast of an attached session could not be forwarded.
C10_Witness ==
    /\ ev.kind = "clientMsg"
    /\ ~ev.ok
    /\ ev.sid \in Attached
    /\ out[ev.sid] = <<"ErrClusterUnreachable">>

\* A successful join response for session s that was applied.
JoinApplied(e, s) ==
    /\ e.kind = "joinResp"
    /\ e.sid = s
    /\ e.ok
    /\ e.code < 300
    /\ e.known
    /\ ~e.left

\* C11: a leave response, whatever its Ctrl code, adds no session to
\* T.sessions, changes no entry that stays and installs no subscription; a
\* session that is not in T.sessions enters it, and a session without a
\* subscription gets one, only by a successful join response for it.
C11_LeaveNeverAttaches ==
    [][/\ ev'.kind = "leaveResp" =>
            /\ DOMAIN sessions' \subseteq Attached
            /\ \A s \in DOMAIN sessions' : sessions'[s] = sessions[s]
            /\ subs' = subs
       /\ \A s \in Sids :
            /\ (s \notin Attached /\ s \in DOMAIN sessions') => JoinApplied(ev', s)
            /\ (subs[s] = NoSub /\ subs'[s] # NoSub) => JoinApplied(ev', s)
      ]_vars

\* C11 witness: a refused leave (Ctrl.Code >= 300) was processed for a
\* session still in the store that is detached on both sides, while another
\* session is attached.
C11_Witness ==
    /\ ev.kind = "leaveResp"
    /\ ev.ok
    /\ ev.code >= 300
    /\ ev.known
    /\ ev.sid \notin Attached
    /\ subs[ev.sid] = NoSub
    /\ Attached # {}

\* C20 as stated: a session that has an inflight counter gets it decremented
\* exactly once by every reg event and by every unreg event that arrived
\* client-initiated, and never by an unreg event that arrived
\* server-initiated.
C20_InflightDone ==
    [][/\ (ev'.kind = "reg" /\ ev'.cnt) => ev'.dec = 1
       /\ (ev'.kind = "unreg" /\ ev'.cnt) => ev'.dec = (IF ev'.init THEN 1 ELSE 0)
      ]_vars

\* C12 as stated: every session in T.sessions that is not a channel
\* subscriber has its subscribed uid among the keys of T.perUser.
C12_AttachedHavePerUser ==
    \A s \in Attached : ~sessions[s].isChanSub => sessions[s].uid \in DOMAIN perUser

\* ------------------------------------------------------- http claims

\* The teardown of the stop branch, in the order of the code.
TeardownOrder ==
    <<"shuttingDown", "serverShutdown", "sessionStoreShutdown", "httpdone",
      "clusterShutdown", "pluginsShutdown">>
    \o (IF cfg.grpc THEN <<"grpcStop">> ELSE <<>>)
    \o <<"statsShutdown", "hubShutdown", "hubdone", "usersShutdown">>

IsPrefix(p, q) == Len(p) <= Len(q) /\ \A i \in 1..Len(p) : p[i] = q[i]

Done(name) == \E i \in 1..Len(steps) : steps[i] = name

\* C4: on the stop event the teardown steps run each once and in the order
\* shuttingDown, listener stop, session store, wait for the listener
\* goroutine, cluster, plugins, gRPC (only if configured), statistics, hub
\* shutdown and its completion, user cache; every step after a synchronous
\* one starts only when that one has finished, and listenAndServe returns
\* from the stop branch only after the last step.
C4_TeardownOrder ==
    /\ IsPrefix(steps, TeardownOrder)
    /\ Done("shuttingDown") => shuttingDown
    /\ Done("sessionStoreShutdown") => srvClosed
    /\ Done("clusterShutdown") => lpc = "done"
    /\ Done("usersShutdown") => hubpc = "done"
    /\ (mpc = "returned" /\ stopCh = "taken") => steps = TeardownOrder

\* C4 witness: listenAndServe returned from the stop branch with a gRPC
\* server configured.
C4_Witness ==
    /\ mpc = "returned"
    /\ stopCh = "taken"
    /\ cfg.grpc
    /\ steps = TeardownOrder

\* C13: the stop channel of signalHandler carries exactly one event. No
\* value is offered before a signal arrived; the first signal is taken from
\* signchan by the goroutine, which then offers one value; once
\* listenAndServe has received it (shuttingDown is set by that very step)
\* the goroutine has ended, and no later signal makes it offer again.
C13_OneStopEvent ==
    /\ [](stopCh # "idle" => nsig >= 1)
    /\ []((stopCh = "idle" /\ nsig >= 1) => signchan = 1)
    /\ [](shuttingDown => stopCh = "taken")
    /\ [][stopCh = "taken" => stopCh' = "taken"]_vars

\* C13 witness: the stop event was delivered, listenAndServe returned and
\* further signals arrived, the last one still sitting in signchan.
C13_Witness ==
    /\ stopCh = "taken"
    /\ mpc = "returned"
    /\ nsig = MaxSignals
    /\ nsig >= 2
    /\ signchan = 1

\* C14: every end of the listener goroutine is reported, as a clean stop if
\* globals.shuttingDown is set when the report is made and as a failure if
\* it is not; a Serve return caused by server.Shutdown (ErrServerClosed) is
\* always reported as a clean stop.
C14_ListenerReport ==
    [][/\ lresult' # lresult =>
            /\ lresult' = IF shuttingDown THEN "stopped" ELSE "failed"
            /\ lerr = "closed" => lresult' = "stopped"
            /\ lerr # "none"
       /\ lpc' \in {"send", "done"} => lresult' # "none"
      ]_vars

\* C14 witness: Serve returned because of the shutdown and the listener
\* goroutine reported a clean stop.
C14_Witness ==
    /\ lerr = "closed"
    /\ lresult = "stopped"
    /\ lpc = "done"

\* ---------------------------------------------------------------- media

CallsOf(res) == {res.calls[i] : i \in DOMAIN res.calls}

\* C19: authHttpRequest, for the method and secret getHttpAuth yields.  With
\* a non-empty method: a secret that does not decode gives ErrMalformed;
\* otherwise an unknown method gives zero uid, no error and no challenge, an
\* authenticator error is the error, an authenticator challenge comes with
\* zero uid and no error, and otherwise the record's uid is returned.  The
\* session of form value sid is consulted exactly when the method is empty,
\* and then its uid is returned, zero if there is no such session.
C19_AuthOutcomes ==
    (hpc = "done" /\ hfn = "authHttpRequest") =>
        LET a == getHttpAuth(hreq)
            known == GetLogicalAuthHandler(a.method)
            plain == hres.err = "" /\ ~hres.challenge
        IN  /\ hres.consulted <=> a.method = ""
            /\ a.method = "" =>
                    /\ plain
                    /\ hres.uid = (IF henv.sess = NoSession THEN 0 ELSE henv.sess)
            /\ (a.method # "" /\ ~stdDecodes(a.secret)) => hres.err = "ErrMalformed"
            /\ (a.method # "" /\ stdDecodes(a.secret) /\ ~known) => plain /\ hres.uid = 0
            /\ (a.method # "" /\ stdDecodes(a.secret) /\ known) =>
                    /\ henv.authn.kind = "err" => hres.err = "authn" /\ ~hres.challenge
                    /\ henv.authn.kind = "challenge" =>
                            hres.challenge /\ hres.uid = 0 /\ hres.err = ""
                    /\ henv.authn.kind = "rec" => plain /\ hres.uid = henv.authn.uid

\* A request with an X-Tinode-Auth header whose method part is empty and a
\* sid naming no session: the session store was consulted, the uid is zero.
C19_Witness ==
    /\ hpc = "done" /\ hfn = "authHttpRequest"
    /\ hreq.xauth.nparts = 2
    /\ hreq.query.method = "basic"
    /\ hres.consulted
    /\ henv.sess = NoSession
    /\ hres.uid = 0

\* C17: largeFileServe answers an OPTIONS preflight with the backend's status
\* (204 when it gives none) before any check and without Download; otherwise
\* the first failing check decides: method, API key, authentication error,
\* challenge, zero uid, status from the backend's Headers; Download is called
\* only when all of them passed.
C17_ServeAdmission ==
    (hpc = "done" /\ hfn = "largeFileServe") =>
        LET a == authHttpRequest(hreq, henv)
            m == hreq.method
            keyed == m \in {"GET", "HEAD"} /\ checkAPIKey(hreq.apikey)
            authed == keyed /\ a.err = "" /\ ~a.challenge /\ a.uid # 0
        IN  /\ m = "OPTIONS" =>
                    /\ "Download" \notin CallsOf(hres)
                    /\ ~henv.hdrErr =>
                            /\ hres.resp = "status"
                            /\ hres.code = (IF henv.hdrStatus = 0 THEN 204 ELSE henv.hdrStatus)
            /\ m \notin {"OPTIONS", "GET", "HEAD"} => hres.resp = "ErrOperationNotAllowed"
            /\ (m \in {"GET", "HEAD"} /\ ~checkAPIKey(hreq.apikey)) =>
                    hres.resp = "ErrAPIKeyRequired"
            /\ (keyed /\ a.err # "") => hres.resp = "decoded" /\ hres.err = a.err
            /\ (keyed /\ a.err = "" /\ a.challenge) => hres.resp = "InfoChallenge"
            /\ (keyed /\ a.err = "" /\ ~a.challenge /\ a.uid = 0) =>
                    hres.resp = "ErrAuthRequired"
            /\ (authed /\ ~henv.hdrErr /\ henv.hdrStatus # 0) =>
                    hres.resp \in {"status", "statusCtrl"} /\ hres.code = henv.hdrStatus
            /\ "Download" \in CallsOf(hres) =>
                    authed /\ ~henv.hdrErr /\ henv.hdrStatus = 0

\* A GET that passed every check and reached Download.
C17_Witness ==
    /\ hpc = "done" /\ hfn = "largeFileServe"
    /\ hreq.method = "GET"
    /\ "Download" \in CallsOf(hres)
    /\ hres.resp = "content"

\* C16: in largeFileReceive a FileDef is created and Upload is called for a
\* zero uid only when the form value topic is "newacc"; when authentication
\* was performed and gave zero uid without error or challenge and the topic is
\* anything else, the response is ErrAuthRequired and neither Upload nor
\* FinishUpload is called; an authentication error or a challenge ends the
\* request before any Upload.
C16_UploadAdmission ==
    (hpc = "done" /\ hfn = "largeFileReceive") =>
        LET a == authHttpRequest(hreq, henv)
            performed == hreq.method \in {"POST", "PUT", "HEAD"} /\ checkAPIKey(hreq.apikey)
            storing == {"FileDef", "Upload", "FinishUpload(false,0)",
                        "FinishUpload(true,size)"}
        IN  /\ (CallsOf(hres) \cap storing # {} /\ a.uid = 0) => hreq.topic = "newacc"
            /\ (performed /\ a.err = "" /\ ~a.challenge /\ a.uid = 0
                    /\ hreq.topic # "newacc") =>
                    hres.resp = "ErrAuthRequired" /\ CallsOf(hres) \cap storing = {}
            /\ (performed /\ (a.err # "" \/ a.challenge)) =>
                    /\ CallsOf(hres) \cap storing = {}
                    /\ hres.resp = (IF a.err # "" THEN "decoded" ELSE "InfoChallenge")

\* An unauthenticated upload for topic "newacc" that went through.
C16_Witness ==
    /\ hpc = "done" /\ hfn = "largeFileReceive"
    /\ authHttpRequest(hreq, henv).uid = 0
    /\ hreq.topic = "newacc"
    /\ "Upload" \in CallsOf(hres)
    /\ hres.resp = "NoErrParams"

\* C15: in largeFileReceive Upload is called at most once and is followed at
\* once by the only FinishUpload of the call: (fdef, false, 0) when Upload
\* failed, (fdef, true, size) when it succeeded; when that finalize call
\* fails, Delete follows and an error envelope is written; the envelope with
\* params.url is written exactly when Upload and FinishUpload(true) succeeded.
C15_UploadFinish ==
    (hpc = "done" /\ hfn = "largeFileReceive") =>
        LET c == hres.calls
            ups == {i \in DOMAIN c : c[i] = "Upload"}
            fins == {i \in DOMAIN c :
                        c[i] \in {"FinishUpload(false,0)", "FinishUpload(true,size)"}}
        IN  /\ Cardinality(ups) <= 1
            /\ fins = {i + 1 : i \in ups}
            /\ \A i \in fins :
                    /\ c[i] = (IF henv.uploadOk THEN "FinishUpload(true,size)"
                               ELSE "FinishUpload(false,0)")
                    /\ (henv.uploadOk /\ ~henv.finishOk) =>
                            /\ i + 1 \in DOMAIN c /\ c[i + 1] = "Delete"
                            /\ hres.resp = "decoded" /\ hres.err = "finish"
            /\ (hres.url \/ hres.resp = "NoErrParams") =>
                    /\ hres.url /\ hres.resp = "NoErrParams"
                    /\ ups # {} /\ henv.uploadOk /\ henv.finishOk
            /\ (ups # {} /\ henv.uploadOk /\ henv.finishOk) => hres.url

\* Upload succeeded, FinishUpload(true) failed, Delete was called.
C15_Witness ==
    /\ hpc = "done" /\ hfn = "largeFileReceive"
    /\ henv.uploadOk /\ ~henv.finishOk
    /\ "Delete" \in CallsOf(hres)
    /\ hres.resp = "decoded"

C21_ForwardFailureReplies ==
    [][(/\ ev'.kind \in {"reg", "unreg", "clientMsg", "meta"}
        /\ routed' # <<>>
        /\ ~ev'.ok) =>
        /\ out'[ev'.sid] = <<"ErrClusterUnreachable">>
        /\ ev'.kind = "unreg" => ev'.sid \notin DOMAIN sessions'
      ]_vars

\* C28 as stated: a session is sent ErrClusterUnreachable only by an event
\* for that session whose routeToTopicMaster call returned an error.
C28_UnreachableOnlyOnRouteError ==
    \A s \in Sids :
        out[s] = <<"ErrClusterUnreachable">> =>
            /\ ev.sid = s
            /\ routed # <<>>
            /\ ~ev.ok

\* C23: on a reg event for an inactive topic the session is sent ErrLocked
\* and nothing is forwarded; for an active topic exactly one ProxyReqJoin is
\* forwarded for the session. Either way the event leaves T.sessions and the
\* sessions' subscriptions as they were.
C23_RegForwardsJoin ==
    [][ev'.kind = "reg" =>
        /\ IF ev'.inactive
           THEN /\ out'[ev'.sid] = <<"ErrLocked">>
                /\ routed' = <<>>
           ELSE /\ Len(routed') = 1
                /\ routed'[1].req = "ProxyReqJoin"
                /\ routed'[1].sid = ev'.sid
                /\ "ErrLocked" \notin {out'[ev'.sid][i] : i \in DOMAIN out'[ev'.sid]}
        /\ sessions' = sessions
        /\ subs' = subs
      ]_vars

\* C23 witness: a reg for a session of an inactive topic that is not attached
\* was answered with ErrLocked.
C23_Witness ==
    /\ ev.kind = "reg"
    /\ ev.inactive
    /\ ev.sid \notin Attached
    /\ out[ev.sid] = <<"ErrLocked">>
    /\ routed = <<>>

\* C24: a supd event with a nil session forwards exactly one
\* ProxyReqMeUserAgent carrying the update's user agent and no uid or sid;
\* with a session in T.sessions exactly one ProxyReqBgSession carrying the uid
\* recorded for it in T.sessions, its sid and its user agent; with a session
\* not in T.sessions nothing. T.sessions and the sessions' subscriptions are
\* unchanged, no session is sent anything and the actor keeps running.
C24_SessionUpdate ==
    [][ev'.kind = "supd" =>
        LET s == ev'.sid IN
        /\ routed' = IF s = 0
                     THEN <<[req |-> "ProxyReqMeUserAgent", sid |-> 0, uid |-> 0,
                             ua |-> "upd.userAgent"]>>
                     ELSE IF s \in Attached
                          THEN <<[req |-> "ProxyReqBgSession", sid |-> s,
                                  uid |-> sessions[s].uid,
                                  ua |-> "upd.sess.userAgent"]>>
                          ELSE <<>>
        /\ sessions' = sessions
        /\ subs' = subs
        /\ out' = NoOut
        /\ tpc' = "handled"
      ]_vars

\* C24 witness: the update of a session subscribed under a uid other than
\* its own was forwarded with the subscribed uid.
C24_Witness ==
    /\ ev.kind = "supd"
    /\ ev.sid \in Attached
    /\ sessions[ev.sid].uid # SessUid(ev.sid)
    /\ Len(routed) = 1
    /\ routed[1].uid = sessions[ev.sid].uid

\* C25: a master message with an acs presence for a valid uid U: when both
\* the want and the given mutation parse, T.perUser[U] afterwards holds U's
\* previous modes (the zero modes if U had no entry) with the two mutations
\* applied and no other entry changes; when either fails to parse, T.perUser
\* is exactly what it was.
C25_AcsUpdate ==
    [][(ev'.kind = "presAcs" /\ ev'.uid # 0) =>
        LET U == ev'.uid
            prev == IF U \in DOMAIN perUser THEN perUser[U] ELSE ZeroPud
            w == ApplyMutation(prev.modeWant, ev'.want)
            g == ApplyMutation(prev.modeGiven, ev'.given)
        IN IF ~w.err /\ ~g.err
           THEN /\ DOMAIN perUser' = DOMAIN perUser \cup {U}
                /\ perUser'[U] = [modeWant |-> w.mode, modeGiven |-> g.mode]
                /\ \A u \in DOMAIN perUser \ {U} : perUser'[u] = perUser[u]
           ELSE perUser' = perUser
      ]_vars

\* C25 witness: an acs presence whose want mutation parses and whose given
\* mutation does not, for a uid without an entry, while another uid has one.
C25_Witness ==
    /\ ev.kind = "presAcs"
    /\ ev.uid # 0
    /\ ev.want = "+R"
    /\ ev.given = "?"
    /\ ev.uid \notin DOMAIN perUser
    /\ DOMAIN perUser # {}

\* C26 as stated: while the actor is running, every session that holds a
\* subscription for the topic is in T.sessions.
C26_SubscribedAreAttached ==
    tpc \in {"select", "handled"} =>
        \A s \in Sids : subs[s] # NoSub => s \in Attached

\* C27 as stated: the actor sends topicUnreg to the hub only in a state where
\* T.sessions is empty.
C27_UnregOnlyWhenEmpty ==
    ev.kind = "killTimer" => Attached = {}

\* C22 as stated: from every state in which T.sessions is empty, unless a
\* session is attached later (or the actor ends), the actor eventually sends
\* topicUnreg to the hub.
C22_IdleTopicUnregisters ==
    [](Attached = {} =>
        <>(ev.kind = "killTimer" \/ Attached # {} \/ tpc \in {"exited", "panic"}))

\* ------------------------------------------- http claims, continued

\* C29: once listenAndServe has received the stop event it eventually
\* returns, whatever the listener goroutine was doing; the goroutine's send on
\* httpdone is eventually received and the goroutine does nothing after it;
\* and listenAndServe has returned only after the whole teardown, or with no
\* teardown step taken after the listener goroutine ended on its own.
C29_StopAlwaysReturns ==
    /\ [](stopCh = "taken" => <>(mpc = "returned"))
    /\ [](lpc = "send" => <>(lpc = "done" /\ ~httpdone))
    /\ [](mpc = "returned" =>
            /\ lpc = "done"
            /\ \/ steps = TeardownOrder /\ stopCh = "taken"
               \/ steps = <<>> /\ stopCh # "taken")
    /\ [][lpc = "done" => (lpc' = "done" /\ ~httpdone')]_vars

\* C29 witness: the stop event was received while the listener goroutine,
\* having failed to bind, was blocked in its send; the teardown ran to its end.
C29_Witness ==
    /\ mpc = "returned"
    /\ stopCh = "taken"
    /\ lerr = "bind"
    /\ lresult = "failed"
    /\ steps = TeardownOrder

====
